---- MODULE Spec2Model ----
(***************************************************************************)
(* mime_guess: the packed lookup table.                                    *)
(*                                                                         *)
(*   builder  src/src/bin/build-lut.rs  main, write_extension_mime_entry   *)
(*   decoder  src/src/lut/mod.rs        get_mimes, Mimes, get_packed_range,*)
(*                                      extension_lut_index                *)
(*                                                                         *)
(* A Rust &str is a sequence of code points; as_bytes is its UTF-8         *)
(* encoding.  Option<T> is a sequence of length at most one: None is <<>>  *)
(* and Some(x) is <<x>>.  Slices are 1-based sequences read through        *)
(* 0-based accessors, as the code indexes them.                            *)
(***************************************************************************)
EXTENDS Integers, Sequences, FiniteSets, TLC

VARIABLES b, data, query, result, idx, got, op, tables, readers, cmp,
          mime_types, call, scratch, needle

vars == <<b, data, query, result, idx, got, op, tables, readers, cmp,
          mime_types, call, scratch, needle>>

None == <<>>
Some(x) == <<x>>

(***************************************************************************)
(* Bounds of the model.                                                    *)
(***************************************************************************)
\* Total number of (media type, extension) associations of a dictionary.
MaxPairs == 3
\* Number of single-entry changes applied to a built table to obtain an
\* arbitrary PackedData value.
MaxPokes == 1

(***************************************************************************)
(* Program constants.                                                      *)
(***************************************************************************)
GUARD_START == 253
GUARD_END == 254
\* PackedIdx = u16
PACKED_IDX_MAX == 65535
\* mimes_len: u8
U8_MAX == 255

(***************************************************************************)
(* Strings and bytes (std).                                                *)
(***************************************************************************)
Utf8Char(c) ==
    IF c < 128 THEN <<c>>
    ELSE IF c < 2048 THEN <<192 + (c \div 64), 128 + (c % 64)>>
    ELSE <<224 + (c \div 4096), 128 + ((c \div 64) % 64), 128 + (c % 64)>>

RECURSIVE as_bytes(_)
as_bytes(s) ==
    IF s = <<>> THEN <<>> ELSE Utf8Char(Head(s)) \o as_bytes(Tail(s))

\* char::to_ascii_uppercase
to_ascii_uppercase(c) == IF c >= 97 /\ c <= 122 THEN c - 32 ELSE c

\* u8::to_ascii_lowercase
to_ascii_lowercase(x) == IF x >= 65 /\ x <= 90 THEN x + 32 ELSE x

\* <[u8]>::eq_ignore_ascii_case
eq_ignore_ascii_case(x, y) ==
    /\ Len(x) = Len(y)
    /\ \A i \in 1..Len(x) : to_ascii_lowercase(x[i]) = to_ascii_lowercase(y[i])

\* <[T]>::get(usize)
slice_get(s, i) == IF i >= 0 /\ i < Len(s) THEN Some(s[i + 1]) ELSE None

\* <[T]>::get(Range<usize>)
slice_get_range(s, r) ==
    IF r.start <= r.end /\ r.end <= Len(s)
    THEN Some(SubSeq(s, r.start + 1, r.end))
    ELSE None

\* str::is_char_boundary on the UTF-8 bytes of a str
is_char_boundary(s, i) ==
    \/ i = 0
    \/ i = Len(s)
    \/ i < Len(s) /\ ~(s[i + 1] >= 128 /\ s[i + 1] < 192)

\* str::get(Range<usize>)
str_get_range(s, r) ==
    IF /\ r.start <= r.end
       /\ r.end <= Len(s)
       /\ is_char_boundary(s, r.start)
       /\ is_char_boundary(s, r.end)
    THEN Some(SubSeq(s, r.start + 1, r.end))
    ELSE None

\* Ord for [u8] (and so for str): lexicographic, byte by byte
RECURSIVE bytes_lt(_, _)
bytes_lt(x, y) ==
    IF y = <<>> THEN FALSE
    ELSE IF x = <<>> THEN TRUE
    ELSE IF Head(x) < Head(y) THEN TRUE
    ELSE IF Head(x) > Head(y) THEN FALSE
    ELSE bytes_lt(Tail(x), Tail(y))

str_lt(s, t) == bytes_lt(as_bytes(s), as_bytes(t))

\* u16::to_le_bytes
to_le_bytes(v) == <<v % 256, v \div 256>>

(***************************************************************************)
(* The decoder.                                                            *)
(***************************************************************************)
\* extension_lut_index without the fold to uppercase
extension_lut_index_no_fold(offset, ext) ==
    IF ext = <<>> THEN None
    ELSE LET c == Head(ext) IN
         IF c > 255 THEN None
         ELSE IF c < offset THEN None
         ELSE Some(c - offset)

extension_lut_index(offset, ext) ==
    IF ext = <<>> THEN None
    ELSE LET c == to_ascii_uppercase(Head(ext)) IN
         \* TryFrom<char> for u8 accepts U+0000..=U+00FF
         IF c > 255 THEN None
         \* u8::checked_sub
         ELSE IF c < offset THEN None
         ELSE Some(c - offset)

\* A missing end entry read as "one past the start" instead of none.
get_packed_range_unchecked(indices, i) ==
    LET start == slice_get(indices, i) IN
    IF start = None THEN None
    ELSE LET end == slice_get(indices, i + 1) IN
         IF end = None THEN Some([start |-> start[1], end |-> start[1] + 1])
         ELSE Some([start |-> start[1], end |-> end[1]])

get_packed_range(indices, i) ==
    LET start == slice_get(indices, i) IN
    IF start = None THEN None
    ELSE LET end == slice_get(indices, i + 1) IN
         IF end = None THEN None
         ELSE Some([start |-> start[1], end |-> end[1]])

\* The body of the for loop of get_mimes, from candidate i on.
RECURSIVE get_mimes_scan(_, _, _, _)
get_mimes_scan(d, ext, i, end) ==
    IF i >= end THEN None
    ELSE
    LET extension_range == get_packed_range(d.extension_offsets, i) IN
    IF extension_range = None THEN None
    ELSE
    LET stored == slice_get_range(d.packed_extensions, extension_range[1]) IN
    IF stored = None THEN None
    ELSE IF ~eq_ignore_ascii_case(stored[1], as_bytes(ext))
    THEN get_mimes_scan(d, ext, i + 1, end)
    ELSE
    LET mimes_offsets == get_packed_range(d.extension_mimes_offsets, i) IN
    IF mimes_offsets = None THEN None
    ELSE
    LET extension_mimes == slice_get_range(d.extension_mimes, mimes_offsets[1]) IN
    IF extension_mimes = None THEN None
    ELSE Some([extension_mimes |-> extension_mimes[1],
               mime_offsets |-> d.mime_offsets,
               packed_mimes |-> d.packed_mimes])

get_mimes(d, ext) ==
    LET lut_idx == extension_lut_index(d.lut_offset, ext) IN
    IF lut_idx = None THEN None
    ELSE
    LET extension_offsets_range == get_packed_range(d.extension_lut, lut_idx[1]) IN
    IF extension_offsets_range = None THEN None
    ELSE get_mimes_scan(d, ext, extension_offsets_range[1].start,
                        extension_offsets_range[1].end)

Mimes_EMPTY ==
    [extension_mimes |-> <<>>, mime_offsets |-> <<>>, packed_mimes |-> <<>>]

Mimes_len(m) == Len(m.extension_mimes)

Mimes_is_empty(m) == m.extension_mimes = <<>>

\* get without the indirection through extension_mimes
Mimes_get_direct(m, i) ==
    IF i >= Len(m.extension_mimes) THEN None
    ELSE
    LET range == get_packed_range(m.mime_offsets, i) IN
    IF range = None THEN None
    ELSE str_get_range(m.packed_mimes, range[1])

Mimes_get(m, i) ==
    LET e == slice_get(m.extension_mimes, i) IN
    IF e = None THEN None
    ELSE
    LET range == get_packed_range(m.mime_offsets, e[1]) IN
    IF range = None THEN None
    ELSE str_get_range(m.packed_mimes, range[1])

\* PACKED_DATA when no data has been generated
PACKED_DATA_EMPTY ==
    [extension_lut |-> <<>>, lut_offset |-> 0,
     extension_offsets |-> <<>>, packed_extensions |-> <<>>,
     extension_mimes_offsets |-> <<>>, extension_mimes |-> <<>>,
     mime_offsets |-> <<>>, packed_mimes |-> <<>>]

(***************************************************************************)
(* The builder.  mimedb and extensions_to_mimes are BTreeMaps: sequences   *)
(* of entries in ascending key order.                                      *)
(***************************************************************************)
\* BTreeMap::get
mimedb_get(mimedb, mime) ==
    LET S == {i \in 1..Len(mimedb) : mimedb[i].mime = mime} IN
    IF S = {} THEN None ELSE Some(mimedb[CHOOSE i \in S : TRUE])

\* extensions_to_mimes.entry(ext).or_default().push(mime)
entry_or_default_push(map, ext, mime) ==
    LET S == {i \in 1..Len(map) : map[i].ext = ext} IN
    IF S /= {}
    THEN LET i == CHOOSE j \in S : TRUE IN
         [map EXCEPT ![i].mimes = Append(@, mime)]
    ELSE LET n == Cardinality({j \in 1..Len(map) : str_lt(map[j].ext, ext)}) IN
         SubSeq(map, 1, n) \o <<[ext |-> ext, mimes |-> <<mime>>]>>
             \o SubSeq(map, n + 1, Len(map))

\* for ext in &data.extensions { .. }
RECURSIVE push_extensions(_, _, _)
push_extensions(map, exts, mime) ==
    IF exts = <<>> THEN map
    ELSE push_extensions(entry_or_default_push(map, Head(exts), mime),
                         Tail(exts), mime)

\* for mime in mimes { .. extension_mimes.extend(data_idx.to_le_bytes()) }
\* None: one of the two "BUG" panics.
RECURSIVE mime_index_bytes(_, _)
mime_index_bytes(mimes, mimedb) ==
    IF mimes = <<>> THEN Some(<<>>)
    ELSE
    LET mime_data == mimedb_get(mimedb, Head(mimes)) IN
    IF mime_data = None THEN None
    ELSE IF mime_data[1].data_idx = None THEN None
    ELSE
    LET rest == mime_index_bytes(Tail(mimes), mimedb) IN
    IF rest = None THEN None
    ELSE Some(to_le_bytes(mime_data[1].data_idx[1]) \o rest[1])

write_extension_mime_entry(ext, mimes, mimedb, extension_data, extension_mimes) ==
    LET indices == mime_index_bytes(mimes, mimedb) IN
    IF \/ Len(extension_mimes) > PACKED_IDX_MAX
       \/ Len(mimes) > U8_MAX
       \/ indices = None
    THEN [panicked |-> TRUE,
          extension_data |-> extension_data,
          extension_mimes |-> extension_mimes]
    ELSE [panicked |-> FALSE,
          extension_data |->
              extension_data \o <<GUARD_START>> \o as_bytes(ext) \o <<GUARD_END>>
                  \o to_le_bytes(Len(extension_mimes)),
          extension_mimes |->
              extension_mimes \o <<Len(mimes)>> \o indices[1]]

\* The state of main after `mimedb` has been read.
main_start(mimedb) ==
    [pc |-> "mime_data", mimedb |-> mimedb, k |-> 1,
     mime_data |-> <<>>, extensions_to_mimes |-> <<>>,
     lut_offset |-> 0, extension_lut |-> <<>>,
     extension_data |-> <<>>, extension_mimes |-> <<>>,
     last_lut_index |-> 0]

panic(s) == [s EXCEPT !.pc = "panic"]

\* main_mime_data with data_idx taken after the record is pushed
main_mime_data_idx_after(s) ==
    IF s.k > Len(s.mimedb) THEN [s EXCEPT !.pc = "invert", !.k = 1]
    ELSE IF s.mimedb[s.k].extensions = <<>> THEN [s EXCEPT !.k = @ + 1]
    ELSE IF Len(s.mime_data) > PACKED_IDX_MAX THEN panic(s)
    ELSE [s EXCEPT !.mimedb[s.k].data_idx =
                       Some(Len(s.mime_data) + Len(as_bytes(s.mimedb[s.k].mime)) + 2),
                   !.mime_data = @ \o <<GUARD_START>>
                       \o as_bytes(s.mimedb[s.k].mime) \o <<GUARD_END>>,
                   !.k = @ + 1]

\* main_mime_data without the skip of media types that have no extension
main_mime_data_keep_all(s) ==
    IF s.k > Len(s.mimedb) THEN [s EXCEPT !.pc = "invert", !.k = 1]
    ELSE IF Len(s.mime_data) > PACKED_IDX_MAX THEN panic(s)
    ELSE [s EXCEPT !.mimedb[s.k].data_idx = Some(Len(s.mime_data)),
                   !.mime_data = @ \o <<GUARD_START>>
                       \o as_bytes(s.mimedb[s.k].mime) \o <<GUARD_END>>,
                   !.k = @ + 1]

\* One iteration of `for (mime, data) in &mut mimedb`.
main_mime_data(s) ==
    IF s.k > Len(s.mimedb) THEN [s EXCEPT !.pc = "invert", !.k = 1]
    ELSE IF s.mimedb[s.k].extensions = <<>> THEN [s EXCEPT !.k = @ + 1]
    ELSE IF Len(s.mime_data) > PACKED_IDX_MAX THEN panic(s)
    ELSE [s EXCEPT !.mimedb[s.k].data_idx = Some(Len(s.mime_data)),
                   !.mime_data = @ \o <<GUARD_START>>
                       \o as_bytes(s.mimedb[s.k].mime) \o <<GUARD_END>>,
                   !.k = @ + 1]

\* One iteration of `for (mime, data) in &mimedb`, with its inner loop.
main_invert(s) ==
    IF s.k > Len(s.mimedb) THEN [s EXCEPT !.pc = "first", !.k = 1]
    ELSE [s EXCEPT !.extensions_to_mimes =
                       push_extensions(@, s.mimedb[s.k].extensions,
                                       s.mimedb[s.k].mime),
                   !.k = @ + 1]

\* main_first with the first entry of extension_lut taken after the first
\* extension is written
main_first_lut_after(s) ==
    IF s.extensions_to_mimes = <<>> THEN panic(s)
    ELSE
    LET first == s.extensions_to_mimes[1]
        first_lut_index == extension_lut_index(0, first.ext)
    IN
    IF first_lut_index = None THEN panic(s)
    ELSE
    LET w == write_extension_mime_entry(first.ext, first.mimes, s.mimedb,
                                        <<>>, <<>>)
    IN
    IF w.panicked THEN panic(s)
    ELSE [s EXCEPT !.pc = "walk", !.k = 2,
                   !.lut_offset = first_lut_index[1],
                   !.extension_lut = <<Len(w.extension_data)>>,
                   !.extension_data = w.extension_data,
                   !.extension_mimes = w.extension_mimes,
                   !.last_lut_index = 0]

\* From `let (first_ext, first_ext_mimes)` to `let mut last_lut_index = 0`.
main_first(s) ==
    IF s.extensions_to_mimes = <<>> THEN panic(s)
    ELSE
    LET first == s.extensions_to_mimes[1]
        first_lut_index == extension_lut_index(0, first.ext)
    IN
    IF first_lut_index = None THEN panic(s)
    ELSE
    LET w == write_extension_mime_entry(first.ext, first.mimes, s.mimedb,
                                        <<>>, <<>>)
    IN
    IF w.panicked THEN panic(s)
    ELSE [s EXCEPT !.pc = "walk", !.k = 2,
                   !.lut_offset = first_lut_index[1],
                   !.extension_lut = <<0>>,
                   !.extension_data = w.extension_data,
                   !.extension_mimes = w.extension_mimes,
                   !.last_lut_index = 0]

\* main_walk with a wrapping subtraction in place of the checked one
main_walk_wrapping(s) ==
    IF s.k > Len(s.extensions_to_mimes) THEN [s EXCEPT !.pc = "emit"]
    ELSE
    LET e == s.extensions_to_mimes[s.k]
        c == IF e.ext = <<>> THEN 0 ELSE to_ascii_uppercase(Head(e.ext))
        lut_index == IF e.ext = <<>> \/ c > U8_MAX THEN None
                     ELSE Some((c - s.lut_offset) % (U8_MAX + 1))
    IN
    IF lut_index = None THEN panic(s)
    ELSE IF lut_index[1] /= s.last_lut_index
            /\ Len(s.extension_data) > PACKED_IDX_MAX
    THEN panic(s)
    ELSE
    LET data_idx == Len(s.extension_data)
        fill == IF lut_index[1] /= s.last_lut_index
                THEN [j \in 1..(lut_index[1] - s.last_lut_index) |-> data_idx]
                ELSE <<>>
        w == write_extension_mime_entry(e.ext, e.mimes, s.mimedb,
                                        s.extension_data, s.extension_mimes)
    IN
    IF w.panicked THEN panic(s)
    ELSE [s EXCEPT !.k = @ + 1,
                   !.extension_lut = @ \o fill,
                   !.last_lut_index = lut_index[1],
                   !.extension_data = w.extension_data,
                   !.extension_mimes = w.extension_mimes]

\* One iteration of `for (i, (ext, mimes)) in .. .enumerate().skip(1)`.
main_walk(s) ==
    IF s.k > Len(s.extensions_to_mimes) THEN [s EXCEPT !.pc = "emit"]
    ELSE
    LET e == s.extensions_to_mimes[s.k]
        lut_index == extension_lut_index(s.lut_offset, e.ext)
    IN
    IF lut_index = None THEN panic(s)
    ELSE IF lut_index[1] /= s.last_lut_index
            /\ Len(s.extension_data) > PACKED_IDX_MAX
    THEN panic(s)
    ELSE
    LET data_idx == Len(s.extension_data)
        \* (last_lut_index .. lut_index).map(|_| data_idx)
        fill == IF lut_index[1] /= s.last_lut_index
                THEN [j \in 1..(lut_index[1] - s.last_lut_index) |-> data_idx]
                ELSE <<>>
        w == write_extension_mime_entry(e.ext, e.mimes, s.mimedb,
                                        s.extension_data, s.extension_mimes)
    IN
    IF w.panicked THEN panic(s)
    ELSE [s EXCEPT !.k = @ + 1,
                   !.extension_lut = @ \o fill,
                   !.last_lut_index = lut_index[1],
                   !.extension_data = w.extension_data,
                   !.extension_mimes = w.extension_mimes]

\* fs::write(..) and the writes of data.rs and test_data.rs
main_emit(s) == [s EXCEPT !.pc = "done"]

main_step(s) ==
    CASE s.pc = "mime_data" -> main_mime_data(s)
      [] s.pc = "invert" -> main_invert(s)
      [] s.pc = "first" -> main_first(s)
      [] s.pc = "walk" -> main_walk(s)
      [] s.pc = "emit" -> main_emit(s)
      [] OTHER -> s

\* main, run to its end
RECURSIVE main(_)
main(s) == IF s.pc \in {"done", "panic"} THEN s ELSE main(main_step(s))

(***************************************************************************)
(* The records of the files main writes, read back.                        *)
(*   extension_data:  GUARD_START <ext> GUARD_END <extension_mimes_idx:le16>*)
(*   extension_mimes: <mimes_len:u8> <data_idx:le16> ..                    *)
(*   mime_data:       GUARD_START <mime> GUARD_END                         *)
(***************************************************************************)
\* 1-based position of the first GUARD_END at or after p, 0 if none
RECURSIVE find_guard_end(_, _)
find_guard_end(bytes, p) ==
    IF p > Len(bytes) THEN 0
    ELSE IF bytes[p] = GUARD_END THEN p
    ELSE find_guard_end(bytes, p + 1)

RECURSIVE extension_records(_, _)
extension_records(bytes, p) ==
    IF p > Len(bytes) THEN <<>>
    ELSE
    LET q == find_guard_end(bytes, p + 1) IN
    IF q = 0 \/ q + 2 > Len(bytes) THEN <<>>
    ELSE <<[at |-> p - 1,
            ext |-> SubSeq(bytes, p + 1, q - 1),
            mimes_idx |-> bytes[q + 1] + 256 * bytes[q + 2]]>>
         \o extension_records(bytes, q + 3)

RECURSIVE mime_records(_, _)
mime_records(bytes, p) ==
    IF p > Len(bytes) THEN <<>>
    ELSE
    LET q == find_guard_end(bytes, p + 1) IN
    IF q = 0 THEN <<>>
    ELSE <<[at |-> p - 1, mime |-> SubSeq(bytes, p + 1, q - 1)]>>
         \o mime_records(bytes, q + 1)

\* The data_idx values of the entry of extension_mimes at byte offset at.
mime_indices_at(bytes, at) ==
    IF at + 1 > Len(bytes) THEN <<>>
    ELSE LET n == bytes[at + 1] IN
         IF at + 1 + 2 * n > Len(bytes) THEN <<>>
         ELSE [j \in 1..n |-> bytes[at + 2 * j] + 256 * bytes[at + 2 * j + 1]]

(***************************************************************************)
(* The Packed Representation of what main wrote: the arrays of PackedData  *)
(* laid out from the builder's records.  An index into extension_data      *)
(* becomes the number of the extension record there, a data_idx the number *)
(* of the media type record there; extension_lut and lut_offset are taken  *)
(* entry for entry.                                                        *)
(***************************************************************************)
RECURSIVE concat(_)
concat(ss) == IF ss = <<>> THEN <<>> ELSE Head(ss) \o concat(Tail(ss))

RECURSIVE end_offsets(_, _)
end_offsets(ss, from) ==
    IF ss = <<>> THEN <<>>
    ELSE <<from + Len(Head(ss))>> \o end_offsets(Tail(ss), from + Len(Head(ss)))

offsets_of(ss) == <<0>> \o end_offsets(ss, 0)

PackedData_of(s) ==
    LET er == extension_records(s.extension_data, 1)
        mr == mime_records(s.mime_data, 1)
        ext_no(v) == Cardinality({i \in 1..Len(er) : er[i].at < v})
        mime_no(v) ==
            LET S == {j \in 1..Len(mr) : mr[j].at = v} IN
            IF S = {} THEN Len(mr) ELSE (CHOOSE j \in S : TRUE) - 1
        exts == [i \in 1..Len(er) |-> er[i].ext]
        ext_mimes ==
            [i \in 1..Len(er) |->
                LET ds == mime_indices_at(s.extension_mimes, er[i].mimes_idx) IN
                [j \in 1..Len(ds) |-> mime_no(ds[j])]]
        mimes == [j \in 1..Len(mr) |-> mr[j].mime]
    IN
    [extension_lut |-> [i \in 1..Len(s.extension_lut) |-> ext_no(s.extension_lut[i])],
     lut_offset |-> s.lut_offset,
     extension_offsets |-> offsets_of(exts),
     packed_extensions |-> concat(exts),
     extension_mimes_offsets |-> offsets_of(ext_mimes),
     extension_mimes |-> concat(ext_mimes),
     mime_offsets |-> offsets_of(mimes),
     packed_mimes |-> concat(mimes)]

(***************************************************************************)
(* Inputs.                                                                 *)
(***************************************************************************)
\* "a/x" and "t/xy"
MIME_A == <<97, 47, 120>>
MIME_T == <<116, 47, 120, 121>>

\* "", "A", "C", "a", "ab", "c", U+00E9, U+2205
ExtPool ==
    {<<>>, <<65>>, <<67>>, <<97>>, <<97, 98>>, <<99>>, <<233>>, <<8709>>}

\* ExtPool, in other spellings, and extensions it does not hold
QueryPool ==
    ExtPool \cup {<<65, 66>>, <<97, 66>>, <<98>>, <<100>>, <<97, 98, 99>>, <<201>>}

SeqsUpTo(S, n) == UNION {[1..k -> S] : k \in 0..n}

\* The dictionaries: the extensions of MIME_A and of MIME_T.
Dictionaries ==
    UNION {{<<ea, et>> : et \in SeqsUpTo(ExtPool, MaxPairs - Len(ea))} :
           ea \in SeqsUpTo(ExtPool, MaxPairs)}

mimedb_of(d) ==
    <<[mime |-> MIME_A, extensions |-> d[1], data_idx |-> None],
      [mime |-> MIME_T, extensions |-> d[2], data_idx |-> None]>>

(***************************************************************************)
(* The state machine: main builds the table, then lookups read it.         *)
(***************************************************************************)
Init ==
    /\ b \in {main_start(mimedb_of(d)) : d \in Dictionaries}
    /\ data = PACKED_DATA_EMPTY
    /\ query = <<>>
    /\ result = None
    /\ idx = 0
    /\ got = None
    /\ op = "none"
    /\ tables = <<>>
    /\ readers = <<>>
    /\ cmp = None
    /\ mime_types = <<>>
    /\ call = None
    /\ scratch = <<>>
    /\ needle = None

Decoder == <<data, query, result, idx, got, op>>

\* The state of the concurrent readers
Concurrent == <<tables, readers, cmp>>

\* The state of the callers of the guess functions
Guesses == <<mime_types, call>>

\* The state of the caller of make_ext_needle
Needles == <<scratch, needle>>

MimeData ==
    /\ b.pc = "mime_data"
    /\ b' = main_mime_data(b)
    /\ UNCHANGED Decoder
    /\ UNCHANGED Concurrent
    /\ UNCHANGED Guesses
    /\ UNCHANGED Needles

Invert ==
    /\ b.pc = "invert"
    /\ b' = main_invert(b)
    /\ UNCHANGED Decoder
    /\ UNCHANGED Concurrent
    /\ UNCHANGED Guesses
    /\ UNCHANGED Needles

First ==
    /\ b.pc = "first"
    /\ b' = main_first(b)
    /\ UNCHANGED Decoder
    /\ UNCHANGED Concurrent
    /\ UNCHANGED Guesses
    /\ UNCHANGED Needles

Walk ==
    /\ b.pc = "walk"
    /\ b' = main_walk(b)
    /\ UNCHANGED Decoder
    /\ UNCHANGED Concurrent
    /\ UNCHANGED Guesses
    /\ UNCHANGED Needles

\* main writes its files; the table is what include!("generated/data.rs")
\* then binds to PACKED_DATA.
Emit ==
    /\ b.pc = "emit"
    /\ b' = main_emit(b)
    /\ data' = PackedData_of(b)
    /\ UNCHANGED <<query, result, idx, got, op>>
    /\ UNCHANGED Concurrent
    /\ UNCHANGED Guesses
    /\ UNCHANGED Needles

\* get_mimes(&PACKED_DATA, q)
Lookup ==
    /\ b.pc = "done"
    /\ \E q \in QueryPool :
        /\ query' = q
        /\ result' = get_mimes(data, q)
    /\ idx' = 0
    /\ got' = None
    /\ op' = "get_mimes"
    /\ UNCHANGED <<b, data>>
    /\ UNCHANGED Concurrent
    /\ UNCHANGED Guesses
    /\ UNCHANGED Needles

\* Mimes::EMPTY, which a caller holds in place of a miss
TakeEmpty ==
    /\ b.pc = "done"
    /\ op /= "EMPTY"
    /\ result' = Some(Mimes_EMPTY)
    /\ query' = <<>>
    /\ idx' = 0
    /\ got' = None
    /\ op' = "EMPTY"
    /\ UNCHANGED <<b, data>>
    /\ UNCHANGED Concurrent
    /\ UNCHANGED Guesses
    /\ UNCHANGED Needles

\* Mimes::get(i) on the view in hand
Get ==
    /\ result /= None
    /\ \E i \in 0..(Mimes_len(result[1]) + 1) :
        /\ idx' = i
        /\ got' = Mimes_get(result[1], i)
    /\ op' = "get"
    /\ UNCHANGED <<b, data, query, result>>
    /\ UNCHANGED Concurrent
    /\ UNCHANGED Guesses
    /\ UNCHANGED Needles

Next == MimeData \/ Invert \/ First \/ Walk \/ Emit \/ Lookup \/ TakeEmpty \/ Get

Spec == Init /\ [][Next]_vars

(***************************************************************************)
(* The decoder on any PackedData: PackedData is a public struct of public  *)
(* fields, so get_mimes may be handed any value.  The values are built     *)
(* tables with up to MaxPokes entries set, dropped or appended.            *)
(***************************************************************************)
\* {"a/x": ["a", "c"], "t/xy": ["a", "ab"]} and {"a/x": [U+00E9]}
DecoderDicts ==
    {<< <<<<97>>, <<99>>>>, <<<<97>>, <<97, 98>>>> >>,
     << <<<<233>>>>, <<>> >>}

IndexFields ==
    {"extension_lut", "extension_offsets", "extension_mimes_offsets",
     "extension_mimes", "mime_offsets"}

PokeVals == {0, 1, 2, 3, 5, 9}

PokeOffsets == {0, 65, 66}

PokeOnce(t) ==
    UNION {{[t EXCEPT ![f] = [@ EXCEPT ![p] = v]] :
                p \in 1..Len(t[f]), v \in PokeVals}
           \cup {[t EXCEPT ![f] = Append(@, v)] : v \in PokeVals}
           \cup (IF t[f] = <<>> THEN {}
                 ELSE {[t EXCEPT ![f] = SubSeq(@, 1, Len(@) - 1)]}) :
           f \in IndexFields}
    \cup {[t EXCEPT !.lut_offset = v] : v \in PokeOffsets}

RECURSIVE Poked(_, _)
Poked(T, n) ==
    IF n = 0 THEN T ELSE Poked(T \cup UNION {PokeOnce(t) : t \in T}, n - 1)

InitDecoder ==
    /\ b \in {main(main_start(mimedb_of(d))) : d \in DecoderDicts}
    /\ data \in Poked({PackedData_of(b)}, MaxPokes)
    /\ query = <<>>
    /\ result = None
    /\ idx = 0
    /\ got = None
    /\ op = "none"
    /\ tables = <<>>
    /\ readers = <<>>
    /\ cmp = None
    /\ mime_types = <<>>
    /\ call = None
    /\ scratch = <<>>
    /\ needle = None

NextDecoder == Lookup \/ TakeEmpty \/ Get

SpecDecoder == InitDecoder /\ [][NextDecoder]_vars

(***************************************************************************)
(* What the claims speak of.                                               *)
(***************************************************************************)
IsAsciiLetter(c) == (c >= 65 /\ c <= 90) \/ (c >= 97 /\ c <= 122)

OtherCase(c) == IF c >= 97 THEN c - 32 ELSE c + 32

\* The strings that differ from q only in the ASCII case of some letters.
CaseVariants(q) ==
    {v \in [1..Len(q) -> UNION {{q[i], OtherCase(q[i])} : i \in 1..Len(q)}] :
        \A i \in 1..Len(q) :
            \/ v[i] = q[i]
            \/ IsAsciiLetter(q[i]) /\ v[i] = OtherCase(q[i])}

\* Entries i and i + 1 (0-based) of an offset array exist and delimit a
\* range of a buffer of length n.
ValidRange(indices, i, n) ==
    /\ i >= 0
    /\ i + 2 <= Len(indices)
    /\ indices[i + 1] <= indices[i + 2]
    /\ indices[i + 2] <= n

RangeOf(buffer, indices, i) ==
    SubSeq(buffer, indices[i + 1] + 1, indices[i + 2])

\* Number of extensions a table stores, and the text of extension i.
StoredCount(d) ==
    IF d.extension_offsets = <<>> THEN 0 ELSE Len(d.extension_offsets) - 1

StoredExt(d, i) == RangeOf(d.packed_extensions, d.extension_offsets, i)

\* The view of the media types of stored extension i.
ViewOf(d, i) ==
    [extension_mimes |-> RangeOf(d.extension_mimes, d.extension_mimes_offsets, i),
     mime_offsets |-> d.mime_offsets,
     packed_mimes |-> d.packed_mimes]

IsMonotone(indices) ==
    \A i \in 1..(Len(indices) - 1) : indices[i] <= indices[i + 1]

\* The invariants of the Packed Representation that a view rests on.
WellFormed(d) ==
    /\ Len(d.extension_offsets) >= 1
    /\ Len(d.extension_mimes_offsets) = Len(d.extension_offsets)
    /\ Len(d.mime_offsets) >= 1
    /\ d.extension_offsets[1] = 0
    /\ d.extension_mimes_offsets[1] = 0
    /\ d.mime_offsets[1] = 0
    /\ IsMonotone(d.extension_lut)
    /\ IsMonotone(d.extension_offsets)
    /\ IsMonotone(d.extension_mimes_offsets)
    /\ IsMonotone(d.mime_offsets)
    /\ \A i \in 1..Len(d.extension_lut) : d.extension_lut[i] <= StoredCount(d)
    /\ d.extension_offsets[Len(d.extension_offsets)] = Len(d.packed_extensions)
    /\ d.extension_mimes_offsets[Len(d.extension_mimes_offsets)]
           = Len(d.extension_mimes)
    /\ d.mime_offsets[Len(d.mime_offsets)] = Len(d.packed_mimes)
    /\ \A i \in 1..Len(d.mime_offsets) :
        is_char_boundary(d.packed_mimes, d.mime_offsets[i])
    /\ \A i \in 1..Len(d.extension_mimes) :
        d.extension_mimes[i] + 1 < Len(d.mime_offsets)

Range(f) == {f[i] : i \in DOMAIN f}

\* The dictionary, read without the builder: its extensions, and the media
\* types of ext, one per listing, in the order of the records.
DictExts(mimedb) == UNION {Range(mimedb[k].extensions) : k \in 1..Len(mimedb)}

RECURSIVE ExpectedMimes(_, _)
ExpectedMimes(mimedb, ext) ==
    IF mimedb = <<>> THEN <<>>
    ELSE [j \in 1..Cardinality({p \in 1..Len(Head(mimedb).extensions) :
                                    Head(mimedb).extensions[p] = ext})
              |-> Head(mimedb).mime]
         \o ExpectedMimes(Tail(mimedb), ext)

\* The media-type strings of a view, read with len and get.
ViewList(m) == [i \in 1..Mimes_len(m) |-> Mimes_get(m, i - 1)]

ExpectedList(mimedb, ext) ==
    [i \in 1..Len(ExpectedMimes(mimedb, ext)) |->
        Some(as_bytes(ExpectedMimes(mimedb, ext)[i]))]

\* main has emitted its table.
Built == b.pc = "done"

\* The extensions main stored, in the order it stored them.
Stored == extension_records(b.extension_data, 1)

\* The bucket of extension i of the builder's sorted map, and the highest.
BucketOf(i) ==
    to_ascii_uppercase(Head(b.extensions_to_mimes[i].ext)) - b.lut_offset

Buckets == {BucketOf(i) : i \in 1..Len(b.extensions_to_mimes)}

Populated(bk) == bk \in Buckets

HighestBucket == CHOOSE bk \in Buckets : \A k \in Buckets : k <= bk

NextPopulated(bk) ==
    CHOOSE n \in Buckets : n > bk /\ \A k \in Buckets : k > bk => n <= k

\* The stored extensions that equal the query, ASCII case ignored.
Matches ==
    {i \in 0..(StoredCount(data) - 1) :
        eq_ignore_ascii_case(StoredExt(data, i), as_bytes(query))}

\* The dictionary lists ext under every one of its media types.
Shared(ext) ==
    \A k \in 1..Len(b.mimedb) : ext \in Range(b.mimedb[k].extensions)

\* The three cases in which a lookup is said to miss at once.
MissesAtOnce(offset, ext) ==
    \/ ext = <<>>
    \/ Head(ext) > 127
    \/ to_ascii_uppercase(Head(ext)) < offset

\* len, is_empty and get of a view agree with the media types it views.
ViewContract(m) ==
    /\ Mimes_is_empty(m) <=> Mimes_len(m) = 0
    /\ \A i \in 0..(Mimes_len(m) + 2) :
        IF i < Mimes_len(m)
        THEN /\ Mimes_get(m, i) /= None
             /\ Mimes_get(m, i)[1] =
                    RangeOf(data.packed_mimes, data.mime_offsets,
                            m.extension_mimes[i + 1])
        ELSE Mimes_get(m, i) = None

(***************************************************************************)
(* C1  Round trip: for every dictionary the builder accepts and every      *)
(* extension e of it, get_mimes on the built table with e spelled as in    *)
(* the dictionary returns a view whose len() is the number of media types  *)
(* of e and whose get(i) is the i-th of them.                              *)
(***************************************************************************)
C1_RoundTrip ==
    (Built /\ op = "get_mimes" /\ query \in DictExts(b.mimedb)) =>
        /\ result /= None
        /\ ViewList(result[1]) = ExpectedList(b.mimedb, query)

(***************************************************************************)
(* C2  Case-insensitivity: on any table, two queries that differ only in   *)
(* the ASCII case of some letters get the same outcome from get_mimes:     *)
(* both none, or views over the same media-type list.                      *)
(***************************************************************************)
C2_CaseInsensitive ==
    op = "get_mimes" =>
        \A v \in CaseVariants(query) : get_mimes(data, v) = result

\* C2 witness: a hit by a query spelled differently from the stored
\* extension.
C2_Witness ==
    /\ op = "get_mimes"
    /\ result /= None
    /\ \E v \in CaseVariants(query) : v /= query
    /\ \A i \in 0..(StoredCount(data) - 1) :
        ValidRange(data.extension_offsets, i, Len(data.packed_extensions))
            => StoredExt(data, i) /= as_bytes(query)

(***************************************************************************)
(* C3  Precondition misses: get_mimes returns none whenever the query is   *)
(* empty, or its first character is not ASCII, or uppercase(first          *)
(* character) is below lut_offset; extension_lut_index returns none in     *)
(* exactly these three cases.                                              *)
(***************************************************************************)
C3_PreconditionMisses ==
    op = "get_mimes" =>
        /\ MissesAtOnce(data.lut_offset, query) => result = None
        /\ extension_lut_index(data.lut_offset, query) = None
               <=> MissesAtOnce(data.lut_offset, query)

\* What the code keeps of C3: extension_lut_index is none exactly for an
\* empty query, a first character above U+00FF, and an uppercased first
\* character below lut_offset.
C3_MissesKept ==
    op = "get_mimes" =>
        (\/ query = <<>>
         \/ Head(query) > 255
         \/ to_ascii_uppercase(Head(query)) < data.lut_offset)
            <=> extension_lut_index(data.lut_offset, query) = None

\* A query whose first character is not ASCII is found.
C3_NonAsciiHit ==
    /\ op = "get_mimes"
    /\ query /= <<>>
    /\ Head(query) > 127
    /\ result /= None

(***************************************************************************)
(* C4  Lookup soundness: on a built table get_mimes(q) returns a view only *)
(* if a stored extension equals q in full, ASCII case ignored; the view is *)
(* that of the first such extension; at most one stored extension matches  *)
(* any query; a query that equals no stored extension returns none.        *)
(***************************************************************************)
C4_LookupSound ==
    (Built /\ op = "get_mimes") =>
        /\ Cardinality(Matches) <= 1
        /\ result /= None =>
            /\ Matches /= {}
            /\ result[1] = ViewOf(data, CHOOSE i \in Matches :
                                            \A j \in Matches : i <= j)
        /\ Matches = {} => result = None

\* What the code keeps of C4: the view is that of a matching extension, and
\* a query that matches none returns none.
C4_SoundOfSomeMatch ==
    (Built /\ op = "get_mimes") =>
        /\ result /= None => \E i \in Matches : result[1] = ViewOf(data, i)
        /\ Matches = {} => result = None

(***************************************************************************)
(* C5  Decoder robustness: on every PackedData value, get_mimes and        *)
(* Mimes::get return a value only when every entry they read exists and    *)
(* every range they slice lies in its buffer; anything else is none.       *)
(***************************************************************************)
C5_DecoderRobust ==
    /\ (op = "get_mimes" /\ result /= None) =>
        /\ query /= <<>>
        /\ LET l == to_ascii_uppercase(Head(query)) - data.lut_offset IN
           /\ l >= 0
           /\ l + 2 <= Len(data.extension_lut)
           /\ \E i \in data.extension_lut[l + 1]..(data.extension_lut[l + 2] - 1) :
               /\ \A j \in data.extension_lut[l + 1]..i :
                   ValidRange(data.extension_offsets, j,
                              Len(data.packed_extensions))
               /\ ValidRange(data.extension_mimes_offsets, i,
                             Len(data.extension_mimes))
               /\ result[1] = ViewOf(data, i)
    /\ (op = "get" /\ got /= None) =>
        /\ idx < Len(result[1].extension_mimes)
        /\ LET j == result[1].extension_mimes[idx + 1] IN
           /\ ValidRange(result[1].mime_offsets, j, Len(result[1].packed_mimes))
           /\ got[1] = RangeOf(result[1].packed_mimes, result[1].mime_offsets, j)

\* C5 witness: a lookup whose bucket is readable and whose first
\* candidate's range does not exist or leaves packed_extensions ends in
\* none.
C5_Witness ==
    /\ op = "get_mimes"
    /\ result = None
    /\ query /= <<>>
    /\ LET l == to_ascii_uppercase(Head(query)) - data.lut_offset IN
       /\ l >= 0
       /\ l + 2 <= Len(data.extension_lut)
       /\ data.extension_lut[l + 1] < data.extension_lut[l + 2]
       /\ ~ValidRange(data.extension_offsets, data.extension_lut[l + 1],
                      Len(data.packed_extensions))

\* Mimes::get inside the view, on a media-type index that mime_offsets
\* does not hold, ends in none.
C5_GetMissesInsideView ==
    /\ op = "get"
    /\ got = None
    /\ idx < Len(result[1].extension_mimes)

(***************************************************************************)
(* C6  Mimes view: a view that get_mimes returns on a well-formed table    *)
(* has len() = the number of media types of the matched extension,         *)
(* is_empty() iff len() = 0, get(i) = the i-th media type for i < len()    *)
(* and none for i >= len(); Mimes::EMPTY has len() = 0 and get(i) = none.  *)
(***************************************************************************)
C6_MimesView ==
    /\ (WellFormed(data) /\ op = "get_mimes" /\ result /= None) =>
        /\ \E i \in Matches :
            Mimes_len(result[1]) =
                data.extension_mimes_offsets[i + 2]
                    - data.extension_mimes_offsets[i + 1]
        /\ ViewContract(result[1])
    /\ (WellFormed(data) /\ op = "get" /\ query /= <<>>) =>
        (got /= None <=> idx < Mimes_len(result[1]))
    /\ (op = "get" /\ query = <<>>) => got = None
    /\ op = "EMPTY" =>
        /\ Mimes_len(result[1]) = 0
        /\ Mimes_is_empty(result[1])
        /\ \A i \in 0..3 : Mimes_get(result[1], i) = None

\* C6 witness: the second media type of a view of two is read.
C6_Witness ==
    /\ WellFormed(data)
    /\ op = "get"
    /\ query /= <<>>
    /\ Mimes_len(result[1]) = 2
    /\ idx = 1
    /\ got /= None

(***************************************************************************)
(* C7  Shared-extension merge order: an extension that the dictionary      *)
(* lists under several media types is stored once, and lookup returns all  *)
(* of those media types in the order of the dictionary's records.          *)
(***************************************************************************)
C7_MergeOrder ==
    (Built /\ op = "get_mimes" /\ Shared(query)) =>
        /\ Cardinality({i \in 1..Len(Stored) : Stored[i].ext = as_bytes(query)}) = 1
        /\ result /= None
        /\ ViewList(result[1]) = ExpectedList(b.mimedb, query)

\* What the code keeps of C7: the builder's map holds every extension once,
\* with its media types in the order of the records.
C7_MergedInOrder ==
    Built =>
        \A ext \in DictExts(b.mimedb) :
            /\ Cardinality({i \in 1..Len(b.extensions_to_mimes) :
                                b.extensions_to_mimes[i].ext = ext}) = 1
            /\ \A i \in 1..Len(b.extensions_to_mimes) :
                b.extensions_to_mimes[i].ext = ext =>
                    b.extensions_to_mimes[i].mimes = ExpectedMimes(b.mimedb, ext)

(***************************************************************************)
(* C8  Dedup invariant: in every table the builder emits no two stored     *)
(* extensions are equal under byte-wise ASCII case-insensitive comparison. *)
(***************************************************************************)
C8_Dedup ==
    Built =>
        \A i, j \in 1..Len(Stored) :
            i /= j => ~eq_ignore_ascii_case(Stored[i].ext, Stored[j].ext)

\* What the code keeps of C8: no two stored extensions are the same bytes.
C8_DedupExact ==
    Built =>
        \A i, j \in 1..Len(Stored) : i /= j => Stored[i].ext /= Stored[j].ext

(***************************************************************************)
(* C9  Bucket completeness: in every table the builder emits               *)
(* bucket_table[i] <= bucket_table[i+1] for every bucket i from 0 to the   *)
(* highest populated one, a bucket with no extension has the entry of the  *)
(* next populated bucket, and get_mimes on a query of an empty bucket      *)
(* returns none.                                                           *)
(***************************************************************************)
C9_BucketComplete ==
    Built =>
        /\ \A bk \in 0..HighestBucket :
            /\ bk + 2 <= Len(b.extension_lut)
            /\ b.extension_lut[bk + 1] <= b.extension_lut[bk + 2]
        /\ \A bk \in 0..HighestBucket :
            ~Populated(bk) =>
                b.extension_lut[bk + 1] = b.extension_lut[NextPopulated(bk) + 1]
        /\ (op = "get_mimes" /\ query /= <<>>) =>
            LET l == to_ascii_uppercase(Head(query)) - data.lut_offset IN
            (l >= 0 /\ l <= HighestBucket /\ ~Populated(l)) => result = None

\* What the code keeps of C9: the same below the highest populated bucket,
\* whose entry is the last one the builder pushes.
C9_BelowHighest ==
    Built =>
        /\ \A bk \in 0..(HighestBucket - 1) :
            /\ bk + 2 <= Len(b.extension_lut)
            /\ b.extension_lut[bk + 1] <= b.extension_lut[bk + 2]
        /\ \A bk \in 0..HighestBucket :
            ~Populated(bk) =>
                b.extension_lut[bk + 1] = b.extension_lut[NextPopulated(bk) + 1]
        /\ (op = "get_mimes" /\ query /= <<>>) =>
            LET l == to_ascii_uppercase(Head(query)) - data.lut_offset IN
            (l >= 0 /\ l <= HighestBucket /\ ~Populated(l)) => result = None

StoredMimes == mime_records(b.mime_data, 1)

FitsPackedIdx ==
    /\ \A i \in 1..Len(b.extension_lut) : b.extension_lut[i] <= PACKED_IDX_MAX
    /\ \A i \in 1..Len(Stored) :
        Stored[i].at <= PACKED_IDX_MAX /\ Stored[i].mimes_idx <= PACKED_IDX_MAX
    /\ \A j \in 1..Len(StoredMimes) : StoredMimes[j].at <= PACKED_IDX_MAX
    /\ \A k \in 1..Len(b.mimedb) :
        b.mimedb[k].data_idx /= None => b.mimedb[k].data_idx[1] <= PACKED_IDX_MAX

(***************************************************************************)
(* C12  Build-time integrity: the builder aborts, and emits no table,      *)
(* whenever the inverted extension set is empty, or any extension is empty *)
(* or has a non-ASCII leading character, or an offset or index does not    *)
(* fit in PackedIdx; every table it emits satisfies all of these.          *)
(***************************************************************************)
C12_BuildIntegrity ==
    /\ b.pc = "panic" => data = PACKED_DATA_EMPTY
    /\ b.pc \in {"emit", "done"} =>
        /\ DictExts(b.mimedb) /= {}
        /\ \A ext \in DictExts(b.mimedb) : ext /= <<>> /\ Head(ext) <= 127
        /\ FitsPackedIdx

\* What the code keeps of C12: the same, with a leading character up to
\* U+00FF in place of an ASCII one.
C12_IntegrityKept ==
    /\ b.pc = "panic" => data = PACKED_DATA_EMPTY
    /\ b.pc \in {"emit", "done"} =>
        /\ DictExts(b.mimedb) /= {}
        /\ \A ext \in DictExts(b.mimedb) : ext /= <<>> /\ Head(ext) <= 255
        /\ FitsPackedIdx

\* The builder aborts on an extension that is not the first in sort order.
C12_AbortsInWalk ==
    /\ b.pc = "panic"
    /\ b.extension_lut /= <<>>

(***************************************************************************)
(* Concurrent readers.  get_mimes borrows the table (&PackedData) and a    *)
(* view borrows its buffers; a reader advances through get_mimes one step  *)
(* at a time, and the steps of several readers interleave.  A table is a   *)
(* PackedData value with the addresses of its mime_offsets and             *)
(* packed_mimes buffers; the build places buffers of equal content at the  *)
(* same address or at different ones.                                      *)
(***************************************************************************)
NumReaders == 2

\* {"a/x": ["a", "ab", "c"]} and {"a/x": ["a", "c"], "t/xy": ["a", "ab"]}
ReaderDicts ==
    << << <<<<97>>, <<97, 98>>, <<99>>>>, <<>> >>,
       << <<<<97>>, <<99>>>>, <<<<97>>, <<97, 98>>>> >> >>

\* "a", "AB", "b"
ReaderQueries == {<<97>>, <<65, 66>>, <<98>>}

\* get_mimes up to the for loop: the range to scan, or the return of none.
get_mimes_begin(d, ext) ==
    LET lut_idx == extension_lut_index(d.lut_offset, ext) IN
    IF lut_idx = None THEN [ret |-> TRUE, out |-> None, i |-> 0, end |-> 0]
    ELSE
    LET extension_offsets_range == get_packed_range(d.extension_lut, lut_idx[1]) IN
    IF extension_offsets_range = None
    THEN [ret |-> TRUE, out |-> None, i |-> 0, end |-> 0]
    ELSE [ret |-> FALSE, out |-> None,
          i |-> extension_offsets_range[1].start,
          end |-> extension_offsets_range[1].end]

\* One iteration of the for loop of get_mimes on candidate i: the function
\* returns out, or the loop goes on.
get_mimes_body(d, ext, i) ==
    LET extension_range == get_packed_range(d.extension_offsets, i) IN
    IF extension_range = None THEN [ret |-> TRUE, out |-> None]
    ELSE
    LET stored == slice_get_range(d.packed_extensions, extension_range[1]) IN
    IF stored = None THEN [ret |-> TRUE, out |-> None]
    ELSE IF ~eq_ignore_ascii_case(stored[1], as_bytes(ext))
    THEN [ret |-> FALSE, out |-> None]
    ELSE
    LET mimes_offsets == get_packed_range(d.extension_mimes_offsets, i) IN
    IF mimes_offsets = None THEN [ret |-> TRUE, out |-> None]
    ELSE
    LET extension_mimes == slice_get_range(d.extension_mimes, mimes_offsets[1]) IN
    IF extension_mimes = None THEN [ret |-> TRUE, out |-> None]
    ELSE [ret |-> TRUE,
          out |-> Some([extension_mimes |-> extension_mimes[1],
                        mime_offsets |-> d.mime_offsets,
                        packed_mimes |-> d.packed_mimes])]

\* A reader that is not inside a call.
Idle == [pc |-> "idle", t |-> 1, ext |-> <<>>, i |-> 0, end |-> 0,
         out |-> None, list |-> <<>>]

\* The step of a scan whose loop variable is shared by the readers of a
\* table.
reader_scan_shared(ts, rs, r) ==
    LET me == rs[r]
        d == ts[me.t].d
    IN
    IF me.i >= me.end THEN [rs EXCEPT ![r].pc = "done", ![r].out = None]
    ELSE
    LET s == get_mimes_body(d, me.ext, me.i) IN
    IF s.ret THEN [rs EXCEPT ![r].pc = "done", ![r].out = s.out]
    ELSE [q \in DOMAIN rs |->
            IF rs[q].pc = "scan" /\ rs[q].t = me.t
            THEN [rs[q] EXCEPT !.i = @ + 1]
            ELSE rs[q]]

\* The next step of reader r inside the for loop of get_mimes.
reader_scan(ts, rs, r) ==
    LET me == rs[r]
        d == ts[me.t].d
    IN
    IF me.i >= me.end THEN [rs EXCEPT ![r].pc = "done", ![r].out = None]
    ELSE
    LET s == get_mimes_body(d, me.ext, me.i) IN
    IF s.ret THEN [rs EXCEPT ![r].pc = "done", ![r].out = s.out]
    ELSE [rs EXCEPT ![r].i = @ + 1]

\* ptr::eq on two slices: the same address and the same length.
ptr_eq(at1, s1, at2, s2) == at1 = at2 /\ Len(s1) = Len(s2)

\* A view with the addresses of the buffers it borrows.
Borrowed(ts, me) ==
    [m |-> me.out[1],
     mime_offsets_at |-> ts[me.t].mime_offsets_at,
     packed_mimes_at |-> ts[me.t].packed_mimes_at]

\* Mimes::EMPTY: empty buffers of its own.
Borrowed_EMPTY ==
    [m |-> Mimes_EMPTY, mime_offsets_at |-> 0, packed_mimes_at |-> 0]

\* Equality of views by the strings they yield
Mimes_eq_by_content(x, y) ==
    [i \in 1..Mimes_len(x.m) |-> Mimes_get(x.m, i - 1)]
        = [i \in 1..Mimes_len(y.m) |-> Mimes_get(y.m, i - 1)]

\* PartialEq for Mimes
Mimes_eq(x, y) ==
    /\ ptr_eq(x.packed_mimes_at, x.m.packed_mimes,
              y.packed_mimes_at, y.m.packed_mimes)
    /\ ptr_eq(x.mime_offsets_at, x.m.mime_offsets,
              y.mime_offsets_at, y.m.mime_offsets)
    /\ x.m.extension_mimes = y.m.extension_mimes

\* A table: built, and closed by the last entry of extension_lut so that
\* every bucket can be read.
ReaderTable(dict) ==
    LET d == PackedData_of(main(main_start(mimedb_of(dict)))) IN
    [d EXCEPT !.extension_lut = Append(@, Len(d.extension_offsets) - 1)]

\* Three tables: the first dictionary built twice, and the second.  The
\* buffers of the second table, equal in content to those of the first,
\* lie at the same addresses as those or at addresses of their own.
TableSeqs ==
    {<<[d |-> ReaderTable(ReaderDicts[1]),
        mime_offsets_at |-> 1, packed_mimes_at |-> 1],
       [d |-> ReaderTable(ReaderDicts[1]),
        mime_offsets_at |-> mo, packed_mimes_at |-> pm],
       [d |-> ReaderTable(ReaderDicts[2]),
        mime_offsets_at |-> 3, packed_mimes_at |-> 3]>> :
        mo \in {1, 2}, pm \in {1, 2}}

InitReaders ==
    /\ b = main(main_start(mimedb_of(ReaderDicts[1])))
    /\ data = PackedData_of(b)
    /\ query = <<>>
    /\ result = None
    /\ idx = 0
    /\ got = None
    /\ op = "none"
    /\ tables \in TableSeqs
    /\ readers = [r \in 1..NumReaders |-> Idle]
    /\ cmp = None
    /\ mime_types = <<>>
    /\ call = None
    /\ scratch = <<>>
    /\ needle = None

\* get_mimes(&tables[t], q) is entered
Begin(r) ==
    /\ readers[r].pc = "idle"
    /\ \E t \in DOMAIN tables, q \in ReaderQueries :
        LET s == get_mimes_begin(tables[t].d, q) IN
        readers' = [readers EXCEPT ![r] =
                        [pc |-> IF s.ret THEN "done" ELSE "scan",
                         t |-> t, ext |-> q, i |-> s.i, end |-> s.end,
                         out |-> s.out, list |-> <<>>]]
    /\ UNCHANGED <<b, tables, cmp>>
    /\ UNCHANGED Decoder
    /\ UNCHANGED Guesses
    /\ UNCHANGED Needles

Scan(r) ==
    /\ readers[r].pc = "scan"
    /\ readers' = reader_scan(tables, readers, r)
    /\ UNCHANGED <<b, tables, cmp>>
    /\ UNCHANGED Decoder
    /\ UNCHANGED Guesses
    /\ UNCHANGED Needles

\* len() and get(i) for every i < len() on the view returned
ReadView(r) ==
    /\ readers[r].pc = "done"
    /\ readers[r].out /= None
    /\ readers' = [readers EXCEPT ![r].pc = "read",
                                  ![r].list = ViewList(readers[r].out[1])]
    /\ UNCHANGED <<b, tables, cmp>>
    /\ UNCHANGED Decoder
    /\ UNCHANGED Guesses
    /\ UNCHANGED Needles

\* The views of two readers, or a view and Mimes::EMPTY, are compared.
Compare(r1, r2) ==
    /\ readers[r1].out /= None
    /\ readers[r1].pc \in {"done", "read"}
    /\ \/ /\ r1 /= r2
          /\ readers[r2].out /= None
          /\ readers[r2].pc \in {"done", "read"}
          /\ cmp' = Some([l |-> r1, r |-> r2,
                          eq |-> Mimes_eq(Borrowed(tables, readers[r1]),
                                          Borrowed(tables, readers[r2]))])
       \/ /\ r1 = r2
          /\ cmp' = Some([l |-> r1, r |-> 0,
                          eq |-> Mimes_eq(Borrowed(tables, readers[r1]),
                                          Borrowed_EMPTY)])
    /\ UNCHANGED <<b, tables, readers>>
    /\ UNCHANGED Decoder
    /\ UNCHANGED Guesses
    /\ UNCHANGED Needles

\* The view is dropped
Drop(r) ==
    /\ readers[r].pc \in {"done", "read"}
    /\ readers' = [readers EXCEPT ![r] = Idle]
    /\ cmp' = None
    /\ UNCHANGED <<b, tables>>
    /\ UNCHANGED Decoder
    /\ UNCHANGED Guesses
    /\ UNCHANGED Needles

NextReaders ==
    \/ \E r \in 1..NumReaders : Begin(r)
    \/ \E r \in 1..NumReaders : Scan(r)
    \/ \E r \in 1..NumReaders : ReadView(r)
    \/ \E r1, r2 \in 1..NumReaders : Compare(r1, r2)
    \/ \E r \in 1..NumReaders : Drop(r)

SpecReaders == InitReaders /\ [][NextReaders]_vars

\* What reader r's lookup returns when it runs alone.
Alone(r) == get_mimes(tables[readers[r].t].d, readers[r].ext)

(***************************************************************************)
(* C13  Read-only sharing: get_mimes and the Mimes operations leave every  *)
(* field of the table unchanged, and under any interleaving of concurrent  *)
(* lookups on the same table each lookup returns what it returns when run  *)
(* alone.                                                                  *)
(***************************************************************************)
C13_ReadOnlySharing ==
    /\ [][tables' = tables /\ data' = data]_vars
    /\ [](\A r \in 1..NumReaders :
            /\ readers[r].pc \in {"done", "read"} => readers[r].out = Alone(r)
            /\ readers[r].pc = "read" =>
                readers[r].list = ViewList(Alone(r)[1]))

\* C13 witness: a lookup has returned a view while another lookup on the
\* same table is inside its scan, past its first candidate.
C13_Witness ==
    /\ readers[1].pc = "read"
    /\ readers[1].list /= <<>>
    /\ readers[2].pc = "scan"
    /\ readers[2].t = readers[1].t
    /\ readers[2].i > 0
    /\ readers[2].ext /= readers[1].ext

\* The media-type indices of the extension that reader r's lookup matched.
MatchedIndices(r) ==
    RangeOf(tables[readers[r].t].d.extension_mimes,
            tables[readers[r].t].d.extension_mimes_offsets, readers[r].i)

\* The two readers' tables have the same mime_offsets buffer and the same
\* packed_mimes buffer.
SameBuffers(r1, r2) ==
    /\ tables[readers[r1].t].mime_offsets_at
           = tables[readers[r2].t].mime_offsets_at
    /\ tables[readers[r1].t].packed_mimes_at
           = tables[readers[r2].t].packed_mimes_at

(***************************************************************************)
(* C14  View equality, as the code has it: two views compare equal exactly *)
(* when their index slices hold the same media-type indices in the same    *)
(* order and they share the identical mime_offsets and packed_mimes        *)
(* buffers.  Two lookups of the same extension on one table compare equal; *)
(* so do the views of two different stored extensions of one table whose   *)
(* index lists coincide; views from two tables compare equal only if the   *)
(* tables share both buffers; no view of a stored extension equals         *)
(* Mimes::EMPTY.                                                           *)
(***************************************************************************)
C14_ViewEquality ==
    cmp /= None =>
        IF cmp[1].r = 0 THEN ~cmp[1].eq
        ELSE
        /\ cmp[1].eq <=>
            /\ SameBuffers(cmp[1].l, cmp[1].r)
            /\ MatchedIndices(cmp[1].l) = MatchedIndices(cmp[1].r)
        /\ (/\ readers[cmp[1].l].t = readers[cmp[1].r].t
            /\ eq_ignore_ascii_case(as_bytes(readers[cmp[1].l].ext),
                                    as_bytes(readers[cmp[1].r].ext)))
               => cmp[1].eq

\* C14 witness: the views of two different stored extensions of one table
\* have been compared and found equal.
C14_Witness ==
    /\ cmp /= None
    /\ cmp[1].r /= 0
    /\ readers[cmp[1].l].t = readers[cmp[1].r].t
    /\ readers[cmp[1].l].i /= readers[cmp[1].r].i
    /\ cmp[1].eq

(***************************************************************************)
(* C14, as stated: two views compare equal exactly when they view the same *)
(* index slice and share the identical mime_offsets and packed_mimes       *)
(* buffers; views of two different stored extensions of one table do not   *)
(* compare equal because their content coincides.                          *)
(***************************************************************************)
C14_SameSliceEquality ==
    (cmp /= None /\ cmp[1].r /= 0) =>
        /\ cmp[1].eq => SameBuffers(cmp[1].l, cmp[1].r)
        /\ readers[cmp[1].l].t = readers[cmp[1].r].t =>
            (cmp[1].eq <=> readers[cmp[1].l].i = readers[cmp[1].r].i)

\* Views of the same extension from two tables of identical content
\* compare unequal.
C14_DistinctTablesUnequal ==
    /\ cmp /= None
    /\ cmp[1].r /= 0
    /\ readers[cmp[1].l].t /= readers[cmp[1].r].t
    /\ tables[readers[cmp[1].l].t].d = tables[readers[cmp[1].r].t].d
    /\ readers[cmp[1].l].ext = readers[cmp[1].r].ext
    /\ ~cmp[1].eq

\* Views of the same extension from two tables of identical content
\* compare equal.
C14_DistinctTablesEqual ==
    /\ cmp /= None
    /\ cmp[1].r /= 0
    /\ readers[cmp[1].l].t /= readers[cmp[1].r].t
    /\ cmp[1].eq

(***************************************************************************)
(* The guess functions of src/src/lib.rs.  MIME_TYPES is a phf::Map from   *)
(* UniCase keys to lists of media types: a sequence of entries whose keys  *)
(* differ under UniCase.  A path is the sequence of its code points; a     *)
(* Mime is the string it was parsed from.                                  *)
(***************************************************************************)
MaxPathLen == 4

SLASH == 47
DOT == 46

\* '/', '.', 'G', 'g', 'x'
PathChars == {SLASH, DOT, 71, 103, 120}

Paths == SeqsUpTo(PathChars, MaxPathLen)

\* "application/octet-stream"
APPLICATION_OCTET_STREAM ==
    <<97, 112, 112, 108, 105, 99, 97, 116, 105, 111, 110, 47,
      111, 99, 116, 101, 116, 45, 115, 116, 114, 101, 97, 109>>

\* {"g": ["i/g"], "Gx": ["t/x", "a/x"]} and {"x": ["a/x"]}
MimeTypesPool ==
    {<<[key |-> <<103>>, val |-> <<<<105, 47, 103>>>>],
       [key |-> <<71, 120>>, val |-> <<<<116, 47, 120>>, <<97, 47, 120>>>>]>>,
     <<[key |-> <<120>>, val |-> <<<<97, 47, 120>>>>]>>}

\* UniCase: equality of the case-folded strings
UniCase_eq(x, y) ==
    /\ Len(x) = Len(y)
    /\ \A i \in 1..Len(x) :
        (IF x[i] < 128 THEN to_ascii_lowercase(x[i]) ELSE x[i])
            = (IF y[i] < 128 THEN to_ascii_lowercase(y[i]) ELSE y[i])

\* map.get(&UniCase::new(key))
map_lookup(map, key) ==
    LET S == {i \in 1..Len(map) : UniCase_eq(map[i].key, key)} IN
    IF S = {} THEN None ELSE Some(map[CHOOSE i \in S : TRUE].val)

\* A lookup that compares the keys byte for byte
map_lookup_exact(map, key) ==
    LET S == {i \in 1..Len(map) : map[i].key = key} IN
    IF S = {} THEN None ELSE Some(map[CHOOSE i \in S : TRUE].val)

\* str::parse::<Mime>: a type and a subtype, both non-empty, around the
\* first '/'.
Mime_parse(s) ==
    LET S == {i \in 1..Len(s) : s[i] = SLASH} IN
    IF S = {} THEN None
    ELSE LET i == CHOOSE j \in S : \A k \in S : j <= k IN
         IF i = 1 \/ i = Len(s) \/ Cardinality(S) > 1 THEN None
         ELSE Some([source |-> s])

\* MimeGuess::from_ext with an exact comparison of the keys
from_ext_exact(map, ext) ==
    IF ext = <<>> THEN <<>>
    ELSE LET v == map_lookup_exact(map, ext) IN
         IF v = None THEN <<>> ELSE v[1]

\* MimeGuess::from_ext
from_ext(map, ext) ==
    IF ext = <<>> THEN <<>>
    ELSE LET v == map_lookup(map, ext) IN
         IF v = None THEN <<>> ELSE v[1]

\* The components of a path that file_name looks at: the runs between '/',
\* without the empty ones and without ".".
RECURSIVE Components(_, _)
Components(path, cur) ==
    IF path = <<>>
    THEN IF cur = <<>> \/ cur = <<DOT>> THEN <<>> ELSE <<cur>>
    ELSE IF Head(path) = SLASH
    THEN (IF cur = <<>> \/ cur = <<DOT>> THEN <<>> ELSE <<cur>>)
             \o Components(Tail(path), <<>>)
    ELSE Components(Tail(path), Append(cur, Head(path)))

\* Path::file_name
Path_file_name(path) ==
    LET cs == Components(path, <<>>) IN
    IF cs = <<>> THEN None
    ELSE IF cs[Len(cs)] = <<DOT, DOT>> THEN None
    ELSE Some(cs[Len(cs)])

\* Path::extension: what follows the last '.' of the file name, unless
\* nothing precedes that '.'.
Path_extension(path) ==
    LET f == Path_file_name(path) IN
    IF f = None THEN None
    ELSE
    LET S == {i \in 1..Len(f[1]) : f[1][i] = DOT} IN
    IF S = {} THEN None
    ELSE LET i == CHOOSE j \in S : \A k \in S : k <= j IN
         IF i = 1 THEN None
         ELSE Some(SubSeq(f[1], i + 1, Len(f[1])))

\* MimeGuess::from_path
from_path(map, path) ==
    LET e == Path_extension(path) IN
    IF e = None THEN <<>> ELSE from_ext(map, e[1])

\* MimeGuess::first: the parse of the first string, unwrapped
MimeGuess_first(guess) ==
    IF guess = <<>> THEN [panicked |-> FALSE, val |-> None]
    ELSE LET m == Mime_parse(guess[1]) IN
         IF m = None THEN [panicked |-> TRUE, val |-> None]
         ELSE [panicked |-> FALSE, val |-> m]

\* MimeGuess::first_as_str
first_as_str(guess) == slice_get(guess, 0)

\* MimeGuess::or_octet_stream
or_octet_stream(guess) ==
    LET f == MimeGuess_first(guess) IN
    IF f.panicked THEN f
    ELSE IF f.val = None
    THEN [panicked |-> FALSE, val |-> Some([source |-> APPLICATION_OCTET_STREAM])]
    ELSE f

get_mime_type(map, search_ext) == or_octet_stream(from_ext(map, search_ext))

get_mime_type_opt(map, search_ext) == MimeGuess_first(from_ext(map, search_ext))

guess_mime_type_opt(map, path) == MimeGuess_first(from_path(map, path))

get_mime_type_str(map, search_ext) == slice_get(from_path(map, search_ext), 0)

InitGuess ==
    /\ b = main_start(<<>>)
    /\ data = PACKED_DATA_EMPTY
    /\ query = <<>>
    /\ result = None
    /\ idx = 0
    /\ got = None
    /\ op = "none"
    /\ tables = <<>>
    /\ readers = <<>>
    /\ cmp = None
    /\ mime_types \in MimeTypesPool
    /\ call = None
    /\ scratch = <<>>
    /\ needle = None

\* The variables no guess function touches
NotGuessed == <<b, data, query, result, idx, got, op, tables, readers, cmp,
                mime_types, scratch, needle>>

\* What a caller holds after a call
Returned(f, arg, r) ==
    Some([fn |-> f, arg |-> arg, panicked |-> r.panicked, ret |-> r.val])

GetMimeType ==
    /\ call = None
    /\ \E ext \in Paths :
        call' = Returned("get_mime_type", ext, get_mime_type(mime_types, ext))
    /\ UNCHANGED NotGuessed

GetMimeTypeOpt ==
    /\ call = None
    /\ \E ext \in Paths :
        call' = Returned("get_mime_type_opt", ext,
                         get_mime_type_opt(mime_types, ext))
    /\ UNCHANGED NotGuessed

GuessMimeTypeOpt ==
    /\ call = None
    /\ \E path \in Paths :
        call' = Returned("guess_mime_type_opt", path,
                         guess_mime_type_opt(mime_types, path))
    /\ UNCHANGED NotGuessed

GetMimeTypeStr ==
    /\ call = None
    /\ \E ext \in Paths :
        call' = Returned("get_mime_type_str", ext,
                         [panicked |-> FALSE,
                          val |-> get_mime_type_str(mime_types, ext)])
    /\ UNCHANGED NotGuessed

\* from_ext(ext).first_as_str()
FirstAsStr ==
    /\ call = None
    /\ \E ext \in Paths :
        call' = Returned("first_as_str", ext,
                         [panicked |-> FALSE,
                          val |-> first_as_str(from_ext(mime_types, ext))])
    /\ UNCHANGED NotGuessed

\* The caller lets go of what it was returned
Forget ==
    /\ call /= None
    /\ call' = None
    /\ UNCHANGED NotGuessed

NextGuess ==
    GetMimeType \/ GetMimeTypeOpt \/ GuessMimeTypeOpt \/ GetMimeTypeStr
        \/ FirstAsStr \/ Forget

SpecGuess == InitGuess /\ [][NextGuess]_vars

\* The entries of MIME_TYPES whose key is ext, letter case ignored.
Mapped(ext) ==
    {i \in 1..Len(mime_types) :
        eq_ignore_ascii_case(as_bytes(mime_types[i].key), as_bytes(ext))}

\* The first media type mapped to ext.
FirstMapped(ext) == mime_types[CHOOSE i \in Mapped(ext) : TRUE].val[1]

\* A file name of one stem and one extension, with no directory.
IsStemDotExt(path, stem, ext) ==
    /\ path = stem \o <<DOT>> \o ext
    /\ stem /= <<>>
    /\ \A i \in 1..Len(stem) : stem[i] \notin {SLASH, DOT}
    /\ \A i \in 1..Len(ext) : ext[i] \notin {SLASH, DOT}

(***************************************************************************)
(* C15  Public guess API: get_mime_type(ext) is the first media type       *)
(* mapped to ext, letter case ignored, and application/octet-stream when   *)
(* ext is empty or unmapped; get_mime_type_opt(ext) is None in exactly     *)
(* those cases; guess_mime_type_opt(path) is None when the path has no     *)
(* extension and get_mime_type_opt of the extension otherwise.             *)
(***************************************************************************)
C15_GuessApi ==
    call /= None =>
        LET c == call[1]
            miss == c.arg = <<>> \/ Mapped(c.arg) = {}
        IN
        /\ c.fn = "get_mime_type" =>
            /\ ~c.panicked
            /\ c.ret = Some([source |-> IF miss THEN APPLICATION_OCTET_STREAM
                                        ELSE FirstMapped(c.arg)])
        /\ c.fn = "get_mime_type_opt" =>
            /\ ~c.panicked
            /\ c.ret = None <=> miss
            /\ ~miss => c.ret = Some([source |-> FirstMapped(c.arg)])
        /\ c.fn = "guess_mime_type_opt" =>
            /\ ~c.panicked
            /\ Path_extension(c.arg) = None => c.ret = None
            /\ Path_extension(c.arg) /= None =>
                c.ret = get_mime_type_opt(mime_types, Path_extension(c.arg)[1]).val
            /\ (\A i \in 1..Len(c.arg) : c.arg[i] /= DOT) => c.ret = None
            /\ \A k \in 1..Len(c.arg) :
                LET stem == SubSeq(c.arg, 1, k - 1)
                    ext == SubSeq(c.arg, k + 1, Len(c.arg))
                IN
                (c.arg[k] = DOT /\ IsStemDotExt(c.arg, stem, ext)) =>
                    c.ret = get_mime_type_opt(mime_types, ext).val

\* C15 witness: the guess for a path in a directory, whose extension is
\* spelled in another letter case than the key of MIME_TYPES, is a media
\* type.
C15_Witness ==
    /\ call /= None
    /\ call[1].fn = "guess_mime_type_opt"
    /\ call[1].ret /= None
    /\ Head(call[1].arg) = SLASH
    /\ \A i \in 1..Len(mime_types) :
        mime_types[i].key /= Path_extension(call[1].arg)[1]

\* get_mime_type has returned application/octet-stream.
C15_OctetStream ==
    /\ call /= None
    /\ call[1].fn = "get_mime_type"
    /\ call[1].arg /= <<>>
    /\ call[1].ret = Some([source |-> APPLICATION_OCTET_STREAM])

(***************************************************************************)
(* C16  get_mime_type_str(ext) returns what from_ext(ext).first_as_str()   *)
(* returns: the first media-type string of ext when ext is a known         *)
(* extension, letter case ignored, and None only when ext is empty or no   *)
(* associated extension is found.                                          *)
(***************************************************************************)
C16_StrAsFromExt ==
    (call /= None /\ call[1].fn = "get_mime_type_str") =>
        /\ call[1].ret = first_as_str(from_ext(mime_types, call[1].arg))
        /\ call[1].ret = None <=>
            (call[1].arg = <<>> \/ Mapped(call[1].arg) = {})
        /\ call[1].ret /= None => call[1].ret = Some(FirstMapped(call[1].arg))

\* What the code does instead: get_mime_type_str(ext) is the first media
\* type of the extension of ext read as a path.
C16_StrAsFromPath ==
    (call /= None /\ call[1].fn = "get_mime_type_str") =>
        call[1].ret =
            (IF Path_extension(call[1].arg) = None THEN None
             ELSE first_as_str(from_ext(mime_types, Path_extension(call[1].arg)[1])))

\* get_mime_type_str returns None for a key of MIME_TYPES.
C16_KnownExtensionMissed ==
    /\ call /= None
    /\ call[1].fn = "get_mime_type_str"
    /\ \E i \in 1..Len(mime_types) : mime_types[i].key = call[1].arg
    /\ call[1].ret = None

\* uppercase(first character) of an extension
UpperFirst(ext) == to_ascii_uppercase(Head(ext))

(***************************************************************************)
(* C17  bucket_offset choice: for every dictionary the builder accepts,    *)
(* lut_offset is uppercase(first character) of the first extension in the  *)
(* builder's sort order, and it is the minimum of uppercase(first          *)
(* character) over all extensions, so that no stored extension underflows  *)
(* when its bucket index is computed.                                      *)
(***************************************************************************)
C17_OffsetIsMinimum ==
    Built =>
        /\ b.lut_offset = UpperFirst(b.extensions_to_mimes[1].ext)
        /\ \A i \in 1..Len(b.extensions_to_mimes) :
            /\ b.lut_offset <= UpperFirst(b.extensions_to_mimes[i].ext)
            /\ extension_lut_index(b.lut_offset, b.extensions_to_mimes[i].ext)
                   /= None
        /\ \A i \in 1..Len(Stored) :
            \E j \in 1..Len(b.extensions_to_mimes) :
                Stored[i].ext = as_bytes(b.extensions_to_mimes[j].ext)

\* C17 witness: a table is emitted for extensions of which a later one in
\* sort order has the same uppercased first character as the first, in the
\* other letter case, and another has a greater one.
C17_Witness ==
    /\ Built
    /\ Len(b.extensions_to_mimes) = 3
    /\ Head(b.extensions_to_mimes[1].ext) /= Head(b.extensions_to_mimes[3].ext)
    /\ UpperFirst(b.extensions_to_mimes[1].ext)
           = UpperFirst(b.extensions_to_mimes[3].ext)
    /\ UpperFirst(b.extensions_to_mimes[2].ext) > b.lut_offset

\* The builder aborts on a dictionary whose first extension in sort order
\* does not have the least uppercased first character.
C17_UnderflowAborts ==
    /\ b.pc = "panic"
    /\ b.extension_lut /= <<>>
    /\ \E i \in 1..Len(b.extensions_to_mimes) :
        /\ b.extensions_to_mimes[i].ext /= <<>>
        /\ UpperFirst(b.extensions_to_mimes[i].ext) < b.lut_offset

\* The stored extensions that lie in the range of bucket bk: from its
\* entry of extension_lut to the next entry, or to the end of the data.
InRangeOf(bk) ==
    {i \in 1..Len(Stored) :
        /\ b.extension_lut[bk + 1] <= Stored[i].at
        /\ Stored[i].at < (IF bk + 2 <= Len(b.extension_lut)
                           THEN b.extension_lut[bk + 2]
                           ELSE Len(b.extension_data))}

\* Along the sorted extensions the bucket index never decreases.
BucketsAscend ==
    \A i, j \in 1..Len(b.extensions_to_mimes) :
        i <= j => BucketOf(i) <= BucketOf(j)

(***************************************************************************)
(* C18  Bucket grouping: along the builder's walk over the sorted          *)
(* extensions the bucket index never decreases, and in the emitted table   *)
(* the range of every bucket holds exactly the extensions whose bucket it  *)
(* is, for every accepted dictionary.                                      *)
(***************************************************************************)
C18_BucketGrouping ==
    Built =>
        /\ BucketsAscend
        /\ \A bk \in Buckets :
            /\ bk + 1 <= Len(b.extension_lut)
            /\ InRangeOf(bk) = {i \in 1..Len(Stored) : BucketOf(i) = bk}

\* What the code keeps of C18: the ranges are exact whenever the sort
\* order of the dictionary's extensions agrees with their bucket order.
C18_GroupedWhenAscending ==
    (Built /\ BucketsAscend) =>
        \A bk \in Buckets :
            /\ bk + 1 <= Len(b.extension_lut)
            /\ InRangeOf(bk) = {i \in 1..Len(Stored) : BucketOf(i) = bk}

\* A table is emitted for a dictionary along whose sorted extensions the
\* bucket index decreases.
C18_DescentAccepted ==
    /\ Built
    /\ ~BucketsAscend

\* A table of several buckets, in ascending order, is emitted.
C18_AscendingBuilt ==
    /\ Built
    /\ BucketsAscend
    /\ Cardinality(Buckets) >= 2

\* The lookup in hand is of an extension of the dictionary that lies in the
\* highest populated bucket.
LooksUpInHighest ==
    /\ op = "get_mimes"
    /\ query \in DictExts(b.mimedb)
    /\ UpperFirst(query) - b.lut_offset = HighestBucket

(***************************************************************************)
(* C19  Final cap entry: when the builder finishes, the bucket table has   *)
(* (highest populated bucket + 2) entries, the last one being the total    *)
(* number of stored extensions, so that the range of the last populated    *)
(* bucket is well-formed and every extension in it is found by get_mimes.  *)
(***************************************************************************)
C19_FinalCap ==
    Built =>
        /\ Len(b.extension_lut) = HighestBucket + 2
        /\ b.extension_lut[Len(b.extension_lut)] = Len(b.extension_data)
        /\ data.extension_lut[Len(data.extension_lut)] = StoredCount(data)
        /\ LooksUpInHighest => result /= None

\* What the code does instead: for a dictionary whose buckets ascend, the
\* table ends with the entry of the highest populated bucket, and no
\* extension of that bucket is found.
C19_EndsAtHighest ==
    (Built /\ BucketsAscend) =>
        /\ Len(b.extension_lut) = HighestBucket + 1
        /\ LooksUpInHighest => result = None

\* An extension of the dictionary that lies in the highest populated bucket
\* has been looked up and missed.
C19_HighestMissed ==
    /\ Built
    /\ LooksUpInHighest
    /\ result = None

\* The media type of mimedb entry k is stored once, at its data_idx.
StoredOnceAt(k) ==
    /\ b.mimedb[k].data_idx /= None
    /\ Cardinality({j \in 1..Len(StoredMimes) :
                        StoredMimes[j].mime = as_bytes(b.mimedb[k].mime)}) = 1
    /\ \E j \in 1..Len(StoredMimes) :
        /\ StoredMimes[j].mime = as_bytes(b.mimedb[k].mime)
        /\ StoredMimes[j].at = b.mimedb[k].data_idx[1]

\* The media type stored at byte offset at of mime_data.
MimeAt(at) ==
    LET S == {j \in 1..Len(StoredMimes) : StoredMimes[j].at = at} IN
    IF S = {} THEN None ELSE Some(StoredMimes[CHOOSE j \in S : TRUE].mime)

\* The indices written for extension i of the sorted map resolve to the
\* media types of that extension, in the guard-byte files and in the table.
IndicesResolve(i) ==
    LET e == b.extensions_to_mimes[i]
        ds == mime_indices_at(b.extension_mimes, Stored[i].mimes_idx)
    IN
    /\ Stored[i].ext = as_bytes(e.ext)
    /\ Len(ds) = Len(e.mimes)
    /\ \A j \in 1..Len(ds) : MimeAt(ds[j]) = Some(as_bytes(e.mimes[j]))
    /\ ViewList(ViewOf(data, i - 1))
           = [j \in 1..Len(e.mimes) |-> Some(as_bytes(e.mimes[j]))]

C20_SharedBuilt ==
    /\ Built
    /\ Len(StoredMimes) = 2
    /\ \E i \in 1..Len(b.extensions_to_mimes) :
        Len(b.extensions_to_mimes[i].mimes) = 2

(***************************************************************************)
(* make_ext_needle (src/src/lut/mod.rs): the query extension, folded to    *)
(* lower case and wrapped in the guard bytes, written to the caller's      *)
(* scratch buffer or to a heap buffer.                                     *)
(***************************************************************************)
\* Longest scratch buffer a caller passes, in bytes.
MaxScratch == 4
\* Longest extension passed to make_ext_needle, in characters.
MaxExtLen == 3

\* 'A', 'a' and U+00E9 (two bytes of UTF-8)
NeedleChars == {65, 97, 233}

NeedleExts == UNION {[1..n -> NeedleChars] : n \in 0..MaxExtLen}

\* What a caller's buffer holds after its first byte
ScratchBytes == {0, GUARD_END}

\* The buffers a caller passes: at least two bytes, the first GUARD_START
Scratches ==
    {<<GUARD_START>> \o s :
        s \in UNION {[1..n -> ScratchBytes] : n \in 1..(MaxScratch - 1)}}

\* str::len
str_len(s) == Len(as_bytes(s))

\* for (c, o) in s.as_bytes().iter().zip(out) { *o = c.to_ascii_lowercase() }
copy_ascii_lowercase(s, out) ==
    [i \in 1..Len(out) |->
        IF i <= str_len(s) THEN to_ascii_lowercase(as_bytes(s)[i])
        ELSE out[i]]

\* The call panicked; buf is the scratch buffer as the unwinding leaves it.
Needle_panic(buf) ==
    [panicked |-> TRUE, scratch |-> buf, cow |-> "none", bytes |-> <<>>]

\* Cow::Borrowed: a slice of the scratch buffer
Cow_Borrowed(buf, bytes) ==
    [panicked |-> FALSE, scratch |-> buf, cow |-> "Borrowed", bytes |-> bytes]

\* Cow::Owned: a Vec<u8>
Cow_Owned(buf, bytes) ==
    [panicked |-> FALSE, scratch |-> buf, cow |-> "Owned", bytes |-> bytes]

\* debug_assertions is the build's setting: the two debug_assert! lines are
\* compiled in only when it is on.
make_ext_needle(ext, buf, debug_assertions) ==
    LET len == str_len(ext) IN
    \* debug_assert_eq!(scratch[0], GUARD_START)
    IF debug_assertions /\ (Len(buf) = 0 \/ buf[1] /= GUARD_START)
    THEN Needle_panic(buf)
    \* debug_assert!(scratch.len() > 1)
    ELSE IF debug_assertions /\ ~(Len(buf) > 1) THEN Needle_panic(buf)
    ELSE IF len < Len(buf) THEN
        \* &mut scratch[1..][..ext.len()]: both ranges are inside the buffer
        \* when ext.len() < scratch.len()
        LET copied == <<buf[1]>>
                      \o copy_ascii_lowercase(ext, SubSeq(buf, 2, 1 + len))
                      \o SubSeq(buf, 2 + len, Len(buf)) IN
        \* scratch[1 + ext.len()] = GUARD_END, index checked
        IF 1 + len >= Len(buf) THEN Needle_panic(copied)
        ELSE
        LET guarded == [copied EXCEPT ![2 + len] = GUARD_END] IN
        \* scratch[..2 + ext.len()], range checked
        IF 2 + len > Len(buf) THEN Needle_panic(guarded)
        ELSE Cow_Borrowed(guarded, SubSeq(guarded, 1, 2 + len))
    ELSE
        \* vec![GUARD_START; ext.len() + 2]
        LET filled == [i \in 1..(len + 2) |-> GUARD_START]
            copied == <<filled[1]>>
                      \o copy_ascii_lowercase(ext, SubSeq(filled, 2, 1 + len))
                      \o SubSeq(filled, 2 + len, len + 2) IN
        Cow_Owned(buf, [copied EXCEPT ![2 + len] = GUARD_END])

\* The variables make_ext_needle does not touch
NotNeedle == <<b, data, query, result, idx, got, op, tables, readers, cmp,
               mime_types, call>>

InitNeedle ==
    /\ b = main_start(<<>>)
    /\ data = PACKED_DATA_EMPTY
    /\ query = <<>>
    /\ result = None
    /\ idx = 0
    /\ got = None
    /\ op = "none"
    /\ tables = <<>>
    /\ readers = <<>>
    /\ cmp = None
    /\ mime_types = <<>>
    /\ call = None
    /\ scratch \in Scratches
    /\ needle = None

\* A caller builds the needle of an extension in its scratch buffer.
MakeExtNeedle ==
    /\ needle = None
    /\ \E ext \in NeedleExts, debug_assertions \in BOOLEAN :
        LET r == make_ext_needle(ext, scratch, debug_assertions) IN
        /\ scratch' = r.scratch
        /\ needle' = Some([ext |-> ext, before |-> scratch,
                           panicked |-> r.panicked, cow |-> r.cow,
                           bytes |-> r.bytes])
    /\ UNCHANGED NotNeedle

\* The caller drops the needle; the scratch buffer keeps what was written.
DropNeedle ==
    /\ needle /= None
    /\ ~needle[1].panicked
    /\ needle' = None
    /\ UNCHANGED scratch
    /\ UNCHANGED NotNeedle

NextNeedle == MakeExtNeedle \/ DropNeedle

SpecNeedle == InitNeedle /\ [][NextNeedle]_vars

\* GUARD_START, the bytes of ext in ASCII lower case, GUARD_END
ExpectedNeedle(ext) ==
    <<GUARD_START>>
    \o [i \in 1..str_len(ext) |-> to_ascii_lowercase(as_bytes(ext)[i])]
    \o <<GUARD_END>>

\* The needle of ext fits in the buffer.
NeedleFits(ext, buf) == str_len(ext) + 2 <= Len(buf)

\* The buffer is one a caller may pass.
ScratchOk(buf) == Len(buf) >= 2 /\ buf[1] = GUARD_START

\* The call returned what the contract says.
NeedleAsContracted(n) ==
    /\ ~n.panicked
    /\ n.bytes = ExpectedNeedle(n.ext)
    /\ Len(n.bytes) = str_len(n.ext) + 2
    /\ n.cow = (IF NeedleFits(n.ext, n.before) THEN "Borrowed" ELSE "Owned")

(* C21  make_ext_needle: for every extension and every scratch buffer of   *)
(* at least two bytes that starts with GUARD_START, the call completes     *)
(* without an out-of-bounds access and returns GUARD_START, the bytes of   *)
(* the extension in ASCII lower case, GUARD_END; the result is a slice of  *)
(* the scratch buffer whenever it fits there and a heap buffer only        *)
(* otherwise, also when ext.len() = scratch.len() - 1.                     *)
C21_NeedleContract ==
    needle /= None =>
        (ScratchOk(needle[1].before) => NeedleAsContracted(needle[1]))

\* C21, the part that holds: the contract is kept for every extension whose
\* length is not scratch.len() - 1, and the call panics exactly at that
\* length, after the extension was copied into the scratch buffer.
C21_KeptOffBoundary ==
    needle /= None =>
        LET n == needle[1] IN
        IF str_len(n.ext) = Len(n.before) - 1
        THEN /\ n.panicked
             /\ scratch = SubSeq(ExpectedNeedle(n.ext), 1, 1 + str_len(n.ext))
        ELSE NeedleAsContracted(n)

\* C21: a call with ext.len() = scratch.len() - 1 has panicked.
C21_BoundaryPanics ==
    /\ needle /= None
    /\ ScratchOk(needle[1].before)
    /\ str_len(needle[1].ext) = Len(needle[1].before) - 1
    /\ needle[1].panicked

\* C21: a needle that fills the scratch buffer was returned in it.
C21_BorrowedReturned ==
    /\ needle /= None
    /\ needle[1].cow = "Borrowed"
    /\ str_len(needle[1].ext) = Len(needle[1].before) - 2

\* C21: a needle longer than the scratch buffer was returned on the heap.
C21_OwnedReturned ==
    /\ needle /= None
    /\ needle[1].cow = "Owned"
    /\ needle[1].bytes = ExpectedNeedle(needle[1].ext)

====
